---- MODULE Spec2Model ----
(***************************************************************************)
(* A model of the leaderboard client of the Momento Rust SDK: the staged   *)
(* client builder, the pool of data connections with its round-robin       *)
(* selection, and the credential provider that turns a token into          *)
(* endpoints.                                                              *)
(***************************************************************************)
EXTENDS Integers, Sequences, FiniteSets, TLC

VARIABLES
    NEXT_DATA_CLIENT_INDEX, \* the process-wide static AtomicUsize
    builders,               \* per handle: the builder value the caller holds
    calls,                  \* per handle: the methods called on the builder held
    built,                  \* per handle: what build() returned
    attempts,               \* per handle: the connections build() tried to open
    selected,               \* per handle: what each next_data_client call chose
    environment,            \* the environment variables of the process
    credential,             \* the last CredentialProvider call and what it returned
    written,                \* the last diagnostic output of a provider
    invocation              \* the last request sent on a client and what its send did

clientVars == <<NEXT_DATA_CLIENT_INDEX, builders, calls, built, attempts, selected>>

credentialVars == <<environment, credential, written>>

vars == <<clientVars, credentialVars, invocation>>

(***************************************************************************)
(* Bounds of the model.                                                    *)
(***************************************************************************)
MaxChannels == 2
MaxOverrides == 2
MaxCalls == 4
\* The width of the counter in the model: usize, scaled down.
UsizeBits == 3
\* The selections the sends of the operations make in all.
MaxSends == 2

\* The two client handles of the process: two separately built clients.
ClientIds == {"A", "B"}

None == [state |-> "None"]

(***************************************************************************)
(* Configuration { transport_strategy { grpc_configuration { .. } } }      *)
(***************************************************************************)
GrpcConfiguration(num_channels, timeout) ==
    [num_channels |-> num_channels, timeout |-> timeout]

TransportStrategy(grpc_configuration) ==
    [grpc_configuration |-> grpc_configuration]

Configuration(transport_strategy) ==
    [transport_strategy |-> transport_strategy]

\* The configurations the callers of the builder hold: every channel count
\* with the short timeout, and one with the long timeout.
Configurations ==
    { Configuration(TransportStrategy(GrpcConfiguration(n, 5000))) : n \in 0..MaxChannels }
        \cup { Configuration(TransportStrategy(GrpcConfiguration(1, 15000))) }

\* The channel counts the callers override the configuration's with.
NumConnections == {0, MaxChannels}

(***************************************************************************)
(* CredentialProvider                                                      *)
(***************************************************************************)
get_cache_endpoint(endpoint) == "cache." \o endpoint

get_control_endpoint(endpoint) == "control." \o endpoint

get_token_endpoint(endpoint) == "token." \o endpoint

https_endpoint(hostname) == "https://" \o hostname

CredentialProvider(auth_token, control_endpoint, cache_endpoint, token_endpoint) ==
    [auth_token |-> auth_token,
     control_endpoint |-> control_endpoint,
     cache_endpoint |-> cache_endpoint,
     token_endpoint |-> token_endpoint]

\* The providers the callers of the builder hold.
Providers ==
    { CredentialProvider("key1",
                         https_endpoint(get_control_endpoint("momento_endpoint")),
                         https_endpoint(get_cache_endpoint("momento_endpoint")),
                         https_endpoint(get_token_endpoint("momento_endpoint"))),
      CredentialProvider("key2",
                         https_endpoint(get_control_endpoint("foo.com")),
                         https_endpoint(get_cache_endpoint("foo.com")),
                         https_endpoint(get_token_endpoint("foo.com"))) }

(***************************************************************************)
(* Results and errors.                                                     *)
(***************************************************************************)
Ok(value) == [ok |-> TRUE, value |-> value]

Err(error) == [ok |-> FALSE, error |-> error]

MomentoError(message, error_code, inner_error) ==
    [message |-> message, error_code |-> error_code, inner_error |-> inner_error]

(***************************************************************************)
(* Text.  A token is a sequence of characters; the bytes base64 yields are *)
(* numbers, read as ASCII text by the JSON parser.  The model covers       *)
(* ASCII payloads: a byte outside tab, newline, carriage return and the    *)
(* printable range reads as a character no rule of the grammar accepts.    *)
(* (The grave accent, which a TLA+ string cannot hold, is written out.)    *)
(***************************************************************************)
Printable ==
    <<" ", "!", "\"", "#", "$", "%", "&", "'", "(", ")", "*", "+", ",",
      "-", ".", "/", "0", "1", "2", "3", "4", "5", "6", "7", "8", "9", ":",
      ";", "<", "=", ">", "?", "@", "A", "B", "C", "D", "E", "F", "G", "H",
      "I", "J", "K", "L", "M", "N", "O", "P", "Q", "R", "S", "T", "U", "V",
      "W", "X", "Y", "Z", "[", "\\", "]", "^", "_", "<grave>", "a", "b", "c",
      "d", "e", "f", "g", "h", "i", "j", "k", "l", "m", "n", "o", "p", "q",
      "r", "s", "t", "u", "v", "w", "x", "y", "z", "{", "|", "}", "~">>

Chr(byte) ==
    CASE byte \in 32..126 -> Printable[byte - 31]
      [] byte = 9 -> "\t"
      [] byte = 10 -> "\n"
      [] byte = 13 -> "\r"
      [] OTHER -> "<byte>"

(***************************************************************************)
(* base64::engine::general_purpose::URL_SAFE.decode: the URL-safe alphabet,*)
(* canonical padding required, no stray bits in the last symbol.           *)
(***************************************************************************)
UrlSafeAlphabet ==
    <<"A", "B", "C", "D", "E", "F", "G", "H", "I", "J", "K", "L", "M", "N",
      "O", "P", "Q", "R", "S", "T", "U", "V", "W", "X", "Y", "Z", "a", "b",
      "c", "d", "e", "f", "g", "h", "i", "j", "k", "l", "m", "n", "o", "p",
      "q", "r", "s", "t", "u", "v", "w", "x", "y", "z", "0", "1", "2", "3",
      "4", "5", "6", "7", "8", "9", "-", "_">>

Symbols == {UrlSafeAlphabet[k] : k \in 1..64}

Sextet == [c \in Symbols |-> (CHOOSE k \in 1..64 : UrlSafeAlphabet[k] = c) - 1]

\* The three bytes of each quantum of four symbols, from quantum g on; a
\* symbol that padding stands in for counts as zero.
RECURSIVE decode_quanta(_, _, _)
decode_quanta(input, symbols, g) ==
    IF 4 * g >= symbols THEN <<>>
    ELSE LET At(k) == IF 4 * g + k <= symbols THEN Sextet[input[4 * g + k]] ELSE 0
             q == At(1) * 262144 + At(2) * 4096 + At(3) * 64 + At(4)
         IN  <<q \div 65536, (q \div 256) % 256, q % 256>>
             \o decode_quanta(input, symbols, g + 1)

URL_SAFE_decode(input) ==
    LET len == Len(input)
        padding == IF len >= 2 /\ input[len] = "=" /\ input[len - 1] = "=" THEN 2
                   ELSE IF len >= 1 /\ input[len] = "=" THEN 1
                   ELSE 0
        symbols == len - padding
    IN  IF len % 4 # 0
        THEN Err("base64::DecodeError")
        ELSE IF \E k \in 1..symbols : input[k] \notin Symbols
        THEN Err("base64::DecodeError")
        ELSE IF padding = 2 /\ Sextet[input[symbols]] % 16 # 0
        THEN Err("base64::DecodeError")
        ELSE IF padding = 1 /\ Sextet[input[symbols]] % 4 # 0
        THEN Err("base64::DecodeError")
        ELSE Ok(SubSeq(decode_quanta(input, symbols, 0), 1, (len \div 4) * 3 - padding))

(***************************************************************************)
(* serde_json::from_slice::<V1Token>: a JSON text read into the struct     *)
(* { api_key: String, endpoint: String }.                                  *)
(***************************************************************************)
Whitespace == {" ", "\t", "\n", "\r"}

Digits == {"0", "1", "2", "3", "4", "5", "6", "7", "8", "9"}

PrintableChars == {Printable[k] : k \in 1..Len(Printable)}

RECURSIVE skip_whitespace(_, _)
skip_whitespace(t, p) ==
    IF p <= Len(t) /\ t[p] \in Whitespace THEN skip_whitespace(t, p + 1) ELSE p

\* The character an escape stands for (the escapes \b and \u are not modelled).
Unescaped(c) ==
    CASE c = "\"" -> "\""
      [] c = "\\" -> "\\"
      [] c = "/" -> "/"
      [] c = "n" -> "\n"
      [] c = "t" -> "\t"
      [] c = "r" -> "\r"
      [] c = "f" -> "\f"

\* The rest of a string, from p (after the opening quote) to the closing one.
RECURSIVE parse_str(_, _, _)
parse_str(t, p, text) ==
    IF p > Len(t) THEN [ok |-> FALSE]
    ELSE IF t[p] = "\"" THEN [ok |-> TRUE, next |-> p + 1, text |-> text]
    ELSE IF t[p] = "\\"
    THEN IF p + 1 <= Len(t) /\ t[p + 1] \in {"\"", "\\", "/", "n", "t", "r", "f"}
         THEN parse_str(t, p + 2, text \o Unescaped(t[p + 1]))
         ELSE [ok |-> FALSE]
    ELSE IF t[p] \in PrintableChars THEN parse_str(t, p + 1, text \o t[p])
    ELSE [ok |-> FALSE]

RECURSIVE skip_digits(_, _)
skip_digits(t, p) ==
    IF p <= Len(t) /\ t[p] \in Digits THEN skip_digits(t, p + 1) ELSE p

\* An integer: -?(0|[1-9][0-9]*)  (fractions and exponents are not modelled).
parse_number(t, p) ==
    LET d == IF t[p] = "-" THEN p + 1 ELSE p
    IN  IF d > Len(t) \/ t[d] \notin Digits THEN [ok |-> FALSE]
        ELSE IF t[d] = "0" THEN [ok |-> TRUE, next |-> d + 1]
        ELSE [ok |-> TRUE, next |-> skip_digits(t, d)]

parse_ident(t, p, word) ==
    IF p + Len(word) - 1 <= Len(t) /\ SubSeq(t, p, p + Len(word) - 1) = word
    THEN [ok |-> TRUE, next |-> p + Len(word)]
    ELSE [ok |-> FALSE]

\* Any JSON value at p (what a field the struct does not know is skipped as).
RECURSIVE ignore_value(_, _)
RECURSIVE ignore_elements(_, _, _)
RECURSIVE ignore_members(_, _, _)
ignore_value(t, p) ==
    IF p > Len(t) THEN [ok |-> FALSE]
    ELSE CASE t[p] = "\"" -> parse_str(t, p + 1, "")
           [] t[p] = "[" -> ignore_elements(t, p + 1, TRUE)
           [] t[p] = "{" -> ignore_members(t, p + 1, TRUE)
           [] t[p] = "t" -> parse_ident(t, p, <<"t", "r", "u", "e">>)
           [] t[p] = "f" -> parse_ident(t, p, <<"f", "a", "l", "s", "e">>)
           [] t[p] = "n" -> parse_ident(t, p, <<"n", "u", "l", "l">>)
           [] t[p] \in Digits \cup {"-"} -> parse_number(t, p)
           [] OTHER -> [ok |-> FALSE]

ignore_elements(t, p, first) ==
    LET q == skip_whitespace(t, p)
    IN  IF q > Len(t) THEN [ok |-> FALSE]
        ELSE IF t[q] = "]" THEN [ok |-> TRUE, next |-> q + 1]
        ELSE IF ~first /\ t[q] # "," THEN [ok |-> FALSE]
        ELSE LET v == ignore_value(t, skip_whitespace(t, IF first THEN q ELSE q + 1))
             IN  IF ~v.ok THEN [ok |-> FALSE] ELSE ignore_elements(t, v.next, FALSE)

ignore_members(t, p, first) ==
    LET q == skip_whitespace(t, p)
    IN  IF q > Len(t) THEN [ok |-> FALSE]
        ELSE IF t[q] = "}" THEN [ok |-> TRUE, next |-> q + 1]
        ELSE IF ~first /\ t[q] # "," THEN [ok |-> FALSE]
        ELSE LET k == skip_whitespace(t, IF first THEN q ELSE q + 1)
             IN  IF k > Len(t) \/ t[k] # "\"" THEN [ok |-> FALSE]
                 ELSE LET key == parse_str(t, k + 1, "")
                          colon == IF key.ok THEN skip_whitespace(t, key.next) ELSE 0
                      IN  IF ~key.ok \/ colon > Len(t) \/ t[colon] # ":"
                          THEN [ok |-> FALSE]
                          ELSE LET v == ignore_value(t, skip_whitespace(t, colon + 1))
                               IN  IF ~v.ok THEN [ok |-> FALSE]
                                   ELSE ignore_members(t, v.next, FALSE)

\* The fields of V1Token.
V1TokenFields == {"api_key", "endpoint"}

\* The value of a String field at p: a JSON string and nothing else.
parse_string_field(t, p) ==
    IF p > Len(t) \/ t[p] # "\"" THEN [ok |-> FALSE] ELSE parse_str(t, p + 1, "")

\* The derived visit_map: the members of the object from p on, the fields
\* read so far in got; a field given twice is an error, an unknown field is
\* skipped, and at the closing brace both fields must have been read.
RECURSIVE visit_map(_, _, _, _)
visit_map(t, p, got, first) ==
    LET q == skip_whitespace(t, p)
    IN  IF q > Len(t) THEN [ok |-> FALSE]
        ELSE IF t[q] = "}"
        THEN IF DOMAIN got = V1TokenFields
             THEN [ok |-> TRUE, next |-> q + 1, value |-> got]
             ELSE [ok |-> FALSE]
        ELSE IF ~first /\ t[q] # "," THEN [ok |-> FALSE]
        ELSE LET k == skip_whitespace(t, IF first THEN q ELSE q + 1)
             IN  IF k > Len(t) \/ t[k] # "\"" THEN [ok |-> FALSE]
                 ELSE LET key == parse_str(t, k + 1, "")
                          colon == IF key.ok THEN skip_whitespace(t, key.next) ELSE 0
                      IN  IF ~key.ok \/ colon > Len(t) \/ t[colon] # ":"
                          THEN [ok |-> FALSE]
                          ELSE IF key.text \in V1TokenFields
                          THEN LET v == parse_string_field(t, skip_whitespace(t, colon + 1))
                               IN  IF ~v.ok \/ key.text \in DOMAIN got
                                   THEN [ok |-> FALSE]
                                   ELSE visit_map(t, v.next, got @@ (key.text :> v.text), FALSE)
                          ELSE LET v == ignore_value(t, skip_whitespace(t, colon + 1))
                               IN  IF ~v.ok THEN [ok |-> FALSE]
                                   ELSE visit_map(t, v.next, got, FALSE)

\* The derived visit_seq: the struct read from an array, its fields in the
\* order of their declaration, and no element after them.
visit_seq(t, p) ==
    LET first == parse_string_field(t, skip_whitespace(t, p))
        comma == IF first.ok THEN skip_whitespace(t, first.next) ELSE 0
    IN  IF ~first.ok \/ comma > Len(t) \/ t[comma] # "," THEN [ok |-> FALSE]
        ELSE LET second == parse_string_field(t, skip_whitespace(t, comma + 1))
                 close == IF second.ok THEN skip_whitespace(t, second.next) ELSE 0
             IN  IF ~second.ok \/ close > Len(t) \/ t[close] # "]" THEN [ok |-> FALSE]
                 ELSE [ok |-> TRUE,
                       next |-> close + 1,
                       value |-> [api_key |-> first.text, endpoint |-> second.text]]

\* serde_json::from_slice: the struct from an object or an array, and only
\* whitespace after it.
serde_json_from_slice(bytes) ==
    LET \* (SubSeq makes the text a sequence once, not at each reading)
        t == SubSeq([j \in 1..Len(bytes) |-> Chr(bytes[j])], 1, Len(bytes))
        p == skip_whitespace(t, 1)
        v == IF p > Len(t) THEN [ok |-> FALSE]
             ELSE IF t[p] = "{" THEN visit_map(t, p + 1, <<>>, TRUE)
             ELSE IF t[p] = "[" THEN visit_seq(t, p + 1)
             ELSE [ok |-> FALSE]
    IN  IF v.ok /\ skip_whitespace(t, v.next) > Len(t)
        THEN Ok(v.value)
        ELSE Err("serde_json::Error")

(***************************************************************************)
(* CredentialProvider: from_string, from_env_var, base_endpoint.           *)
(***************************************************************************)
token_parsing_error(e) ==
    MomentoError("Could not parse token. Please ensure a valid token was entered correctly.",
                 "InvalidArgumentError", e)

\* process_v1_token with the control and the cache endpoint exchanged.
process_v1_token_swapping_endpoints(auth_token_bytes) ==
    LET json == serde_json_from_slice(auth_token_bytes)
    IN  IF ~json.ok
        THEN Err(token_parsing_error(json.error))
        ELSE Ok(CredentialProvider(
                    json.value.api_key,
                    https_endpoint(get_cache_endpoint(json.value.endpoint)),
                    https_endpoint(get_control_endpoint(json.value.endpoint)),
                    https_endpoint(get_token_endpoint(json.value.endpoint))))

process_v1_token(auth_token_bytes) ==
    LET json == serde_json_from_slice(auth_token_bytes)
    IN  IF ~json.ok
        THEN Err(token_parsing_error(json.error))
        ELSE Ok(CredentialProvider(
                    json.value.api_key,
                    https_endpoint(get_control_endpoint(json.value.endpoint)),
                    https_endpoint(get_cache_endpoint(json.value.endpoint)),
                    https_endpoint(get_token_endpoint(json.value.endpoint))))

\* The result, and the functions entered on the way.
decode_auth_token(auth_token) ==
    LET auth_token_bytes == URL_SAFE_decode(auth_token)
    IN  IF ~auth_token_bytes.ok
        THEN [result |-> Err(token_parsing_error(auth_token_bytes.error)),
              entered |-> <<"decode_auth_token">>]
        ELSE [result |-> process_v1_token(auth_token_bytes.value),
              entered |-> <<"decode_auth_token", "process_v1_token">>]

\* from_string without the test for the empty string.
from_string_without_empty_check(auth_token) == decode_auth_token(auth_token)

from_string(auth_token) ==
    IF auth_token = <<>>
    THEN [result |-> Err(MomentoError("Auth token string cannot be empty",
                                      "InvalidArgumentError", "None")),
          entered |-> <<>>]
    ELSE decode_auth_token(auth_token)

\* std::env::var: the value of a variable that is set and is valid Unicode.
Present(value) == [var |-> "Present", value |-> value]

NotPresent == [var |-> "NotPresent"]

NotUnicode == [var |-> "NotUnicode"]

env_var(env, name) ==
    IF env[name] \in {NotPresent, NotUnicode}
    THEN Err("VarError::" \o env[name].var)
    ELSE Ok(env[name].value)

from_env_var(env, env_var_name) ==
    LET v == env_var(env, env_var_name)
    IN  IF ~v.ok
        THEN [result |-> Err(MomentoError("Env var " \o env_var_name \o " must be set",
                                          "InvalidArgumentError", v.error)),
              entered |-> <<>>]
        ELSE decode_auth_token(v.value)

\* base_endpoint leaving the token endpoint as it was.
base_endpoint_keeping_token_endpoint(self, endpoint) ==
    [self EXCEPT !.control_endpoint = https_endpoint(get_control_endpoint(endpoint)),
                 !.cache_endpoint = https_endpoint(get_cache_endpoint(endpoint))]

base_endpoint(self, endpoint) ==
    [self EXCEPT !.control_endpoint = https_endpoint(get_control_endpoint(endpoint)),
                 !.cache_endpoint = https_endpoint(get_cache_endpoint(endpoint)),
                 !.token_endpoint = https_endpoint(get_token_endpoint(endpoint))]

(***************************************************************************)
(* Display and Debug of a CredentialProvider: the output as the pieces     *)
(* written to the formatter, in order.  Debug puts a string in quotes (no  *)
(* endpoint of the model holds a character it would escape).               *)
(***************************************************************************)
str_Debug(value) == "\"" \o value \o "\""

\* Debug as #[derive(Debug)] would write it, the secret included.
Debug_fmt_derived(self) ==
    <<"CredentialProvider", " { ",
      "auth_token", ": ", str_Debug(self.auth_token), ", ",
      "control_endpoint", ": ", str_Debug(self.control_endpoint), ", ",
      "cache_endpoint", ": ", str_Debug(self.cache_endpoint), ", ",
      "token_endpoint", ": ", str_Debug(self.token_endpoint), " }">>

Display_fmt(self) ==
    <<"CredentialProvider { auth_token: <redacted>, cache_endpoint: ", self.cache_endpoint,
      ", control_endpoint: ", self.control_endpoint,
      ", token_endpoint: ", self.token_endpoint,
      " }">>

Debug_fmt(self) ==
    <<"CredentialProvider", " { ",
      "auth_token", ": ", str_Debug("<redacted>"), ", ",
      "cache_endpoint", ": ", str_Debug(self.cache_endpoint), ", ",
      "control_endpoint", ": ", str_Debug(self.control_endpoint), ", ",
      "token_endpoint", ": ", str_Debug(self.token_endpoint), " }">>

(***************************************************************************)
(* What the callers present: environment variable names, base hosts, and   *)
(* tokens.  A well-formed token is written out here the way its issuer     *)
(* would: the JSON text of the two fields, in URL-safe base64 with padding.*)
(***************************************************************************)
EnvVarNames == {"TEST_ENV_VAR_CREDENTIAL_PROVIDER", "TEST_ENV_VAR_CREDENTIAL_PROVIDER_NOT_SET"}

BaseEndpoints == {"foo.com", "bar.io"}

ApiKeys == {<<".", ".", ".">>, <<"k", "\"", "\\", "2">>}

Endpoints == {<<"m", "o", "m", "e", "n", "t", "o", "_", "e", "n", "d", "p", "o", "i", "n", "t">>, <<"e", ".", "i", "o">>}

Layouts == {"endpoint first", "api_key first", "extra field"}

Ord(c) == CHOOSE byte \in 0..127 : Chr(byte) = c

\* The string a sequence of characters spells.
RECURSIVE Concat(_, _)
Concat(chars, from) ==
    IF from > Len(chars) THEN "" ELSE chars[from] \o Concat(chars, from + 1)

RECURSIVE JsonEscaped(_, _)
JsonEscaped(chars, from) ==
    IF from > Len(chars) THEN <<>>
    ELSE (IF chars[from] \in {"\"", "\\"} THEN <<"\\", chars[from]>> ELSE <<chars[from]>>)
         \o JsonEscaped(chars, from + 1)

JsonString(chars) == <<"\"">> \o JsonEscaped(chars, 1) \o <<"\"">>

JsonText(api_key, endpoint, layout) ==
    LET k == JsonString(api_key)
        e == JsonString(endpoint)
    IN  CASE layout = "endpoint first" ->
               <<"{", "\"", "e", "n", "d", "p", "o", "i", "n", "t", "\"", ":">> \o e \o <<",", "\"", "a", "p", "i", "_", "k", "e", "y", "\"", ":">> \o k \o <<"}">>
          [] layout = "api_key first" ->
               <<"{", "\"", "a", "p", "i", "_", "k", "e", "y", "\"", ":">> \o k \o <<",", "\"", "e", "n", "d", "p", "o", "i", "n", "t", "\"", ":">> \o e \o <<"}", "\n">>
          [] layout = "extra field" ->
               <<"{", " ", "\"", "a", "p", "i", "_", "k", "e", "y", "\"", " ", ":", " ">> \o k \o <<",", " ", "\"", "v", "\"", " ", ":", " ", "1", ",", " ", "\"", "e", "n", "d", "p", "o", "i", "n", "t", "\"", " ", ":", " ">> \o e \o <<" ", "}">>

URL_SAFE_encode(bytes) ==
    LET n == Len(bytes)
        B(j) == IF j <= n THEN bytes[j] ELSE 0
        Quantum(g) == B(3 * g + 1) * 65536 + B(3 * g + 2) * 256 + B(3 * g + 3)
        SextetOf(q, k) ==
            CASE k = 0 -> q \div 262144
              [] k = 1 -> (q \div 4096) % 64
              [] k = 2 -> (q \div 64) % 64
              [] OTHER -> q % 64
        Symbol(g, k) ==
            IF k >= 2 /\ 3 * g + k > n THEN "="
            ELSE UrlSafeAlphabet[SextetOf(Quantum(g), k) + 1]
    IN  [i \in 1..(4 * ((n + 2) \div 3)) |-> Symbol((i - 1) \div 4, (i - 1) % 4)]

ValidToken(api_key, endpoint, layout) ==
    LET text == JsonText(api_key, endpoint, layout)
    IN  URL_SAFE_encode([j \in 1..Len(text) |-> Ord(text[j])])

ValidTokens ==
    {ValidToken(k, e, l) : k \in ApiKeys, e \in Endpoints, l \in Layouts}

\* The tokens of the tests invalid_token and invalid_v1_token_json.
InvalidTokens ==
    {<<"w", "f", "h", "e", "o", "f", "h", "r", "i", "u", "g", "h", "e", "i", "f", "w", "e", "i", "f">>,
     <<"e", "y", "J", "m", "b", "2", "8", "i", "O", "i", "J", "i", "Y", "X", "I", "i", "f", "Q", "o", "=">>}

\* A token whose JSON text is an array of the two values, not an object.
ArrayToken(api_key, endpoint) ==
    LET text == <<"[">> \o JsonString(api_key) \o <<",">> \o JsonString(endpoint) \o <<"]">>
    IN  URL_SAFE_encode([j \in 1..Len(text) |-> Ord(text[j])])

ArrayTokens == {ArrayToken(<<".", ".", ".">>, <<"e", ".", "i", "o">>)}

Tokens == ValidTokens \cup InvalidTokens \cup ArrayTokens \cup {<<>>}

\* What a variable is set to: a token (of one layout, when well-formed) or a
\* value that is not Unicode.
EnvTokens ==
    {ValidToken(k, e, "endpoint first") : k \in ApiKeys, e \in Endpoints}
        \cup InvalidTokens \cup {<<>>}

EnvValues == {Present(token) : token \in EnvTokens} \cup {NotUnicode}

(***************************************************************************)
(* The transport, as build() uses it.                                      *)
(***************************************************************************)
\* utils::user_agent(name): the client-identification string.
user_agent(user_agent_name) == "rust-" \o user_agent_name

\* utils::connect_channel_lazily_configurable(endpoint, grpc_config): the
\* channel, or a ChannelConnectError when the setup fails.
connect_channel_lazily_configurable(endpoint, grpc_config, fails) ==
    IF fails
    THEN [ok |-> FALSE, error |-> "ChannelConnectError"]
    ELSE [ok |-> TRUE,
          channel |-> [endpoint |-> endpoint, grpc_configuration |-> grpc_config]]

HeaderInterceptor(auth_token, agent_value) ==
    [auth_token |-> auth_token, agent |-> agent_value]

\* HeaderInterceptor::call(request): the request with the authorization and
\* the agent header added to its metadata, the payload untouched.
call(interceptor, request) ==
    [request EXCEPT !.metadata =
        @ \o <<[key |-> "authorization", value |-> interceptor.auth_token],
               [key |-> "agent", value |-> interceptor.agent]>>]

InterceptedService(channel, interceptor) ==
    [channel |-> channel, interceptor |-> interceptor]

(***************************************************************************)
(* LeaderboardClientBuilder<State>                                         *)
(***************************************************************************)
NeedsConfiguration == [state |-> "NeedsConfiguration"]

NeedsCredentialProvider(configuration) ==
    [state |-> "NeedsCredentialProvider", configuration |-> configuration]

ReadyToBuild(configuration, credential_provider) ==
    [state |-> "ReadyToBuild",
     configuration |-> configuration,
     credential_provider |-> credential_provider]

LeaderboardClient(data_clients, control_client, configuration) ==
    [data_clients |-> data_clients,
     control_client |-> control_client,
     configuration |-> configuration]

\* Mutant: builder() starts past the configuration stage, with a default
\* configuration.
builder_skipping_configuration ==
    NeedsCredentialProvider(Configuration(TransportStrategy(GrpcConfiguration(1, 5000))))

\* LeaderboardClient::builder()
builder == NeedsConfiguration

\* LeaderboardClientBuilder<NeedsConfiguration>::configuration(cfg)
configuration(self, cfg) == NeedsCredentialProvider(cfg)

\* LeaderboardClientBuilder<NeedsCredentialProvider>::credential_provider(cp)
credential_provider(self, cp) == ReadyToBuild(self.configuration, cp)

\* with_num_connections building the grpc configuration anew, with the
\* default timeout.
with_num_connections_resetting_timeout(self, num_connections) ==
    [self EXCEPT !.configuration =
        Configuration(TransportStrategy(GrpcConfiguration(num_connections, 5000)))]

\* LeaderboardClientBuilder<ReadyToBuild>::with_num_connections(n):
\* num_channels replaced, the rest of the grpc configuration and of the
\* builder state spread unchanged.
with_num_connections(self, num_connections) ==
    LET grpc_configuration == self.configuration.transport_strategy.grpc_configuration
        transport_strategy ==
            TransportStrategy([grpc_configuration EXCEPT !.num_channels = num_connections])
    IN  [self EXCEPT !.configuration = Configuration(transport_strategy)]

\* Mutant: the range taken inclusive, 0..=num_channels.
data_channel_count_inclusive(self) ==
    self.configuration.transport_strategy.grpc_configuration.num_channels + 1

\* The range the data channels are opened over: 0..num_channels, exclusive.
data_channel_count(self) ==
    self.configuration.transport_strategy.grpc_configuration.num_channels

\* Mutant: the channels collected with the failed ones dropped (a filter_map
\* over the results), so a pool of the channels that did connect.
RECURSIVE collect_data_channels_dropping_failures(_, _, _, _)
collect_data_channels_dropping_failures(self, i, n, failing) ==
    IF i > n
    THEN [ok |-> TRUE, channels |-> <<>>, attempted |-> <<>>]
    ELSE LET endpoint == self.credential_provider.cache_endpoint
             c == connect_channel_lazily_configurable(
                      endpoint,
                      self.configuration.transport_strategy.grpc_configuration,
                      i \in failing)
             rest == collect_data_channels_dropping_failures(self, i + 1, n, failing)
         IN  [ok |-> TRUE,
              channels |-> (IF c.ok THEN <<c.channel>> ELSE <<>>) \o rest.channels,
              attempted |-> <<[endpoint |-> endpoint, ok |-> c.ok]>> \o rest.attempted]

\* (0..n).map(|_| connect(cache_endpoint, cfg)).collect::<Result<Vec<_>, _>>():
\* the channels in order, or the first error; nothing is attempted after it.
\* failing holds the positions (from i) of the attempts whose setup fails.
RECURSIVE collect_data_channels(_, _, _, _)
collect_data_channels(self, i, n, failing) ==
    IF i > n
    THEN [ok |-> TRUE, channels |-> <<>>, attempted |-> <<>>]
    ELSE LET endpoint == self.credential_provider.cache_endpoint
             c == connect_channel_lazily_configurable(
                      endpoint,
                      self.configuration.transport_strategy.grpc_configuration,
                      i \in failing)
             tried == [endpoint |-> endpoint, ok |-> c.ok]
         IN  IF ~c.ok
             THEN [ok |-> FALSE, error |-> c.error, attempted |-> <<tried>>]
             ELSE LET rest == collect_data_channels(self, i + 1, n, failing)
                  IN  IF rest.ok
                      THEN [ok |-> TRUE,
                            channels |-> <<c.channel>> \o rest.channels,
                            attempted |-> <<tried>> \o rest.attempted]
                      ELSE [ok |-> FALSE,
                            error |-> rest.error,
                            attempted |-> <<tried>> \o rest.attempted]

\* InterceptedService::new(channel, HeaderInterceptor::new(&auth_token, agent))
\* for the control channel.
control_interceptor(self, control_channel, agent_value) ==
    InterceptedService(control_channel,
                       HeaderInterceptor(self.credential_provider.auth_token, agent_value))

\* Mutant: the data channels wrapped with an interceptor that holds no token.
data_interceptor_without_token(self, c, agent_value) ==
    InterceptedService(c, HeaderInterceptor("", agent_value))

\* The same for one data channel, wrapped in SLbClient::new.
data_interceptor(self, c, agent_value) ==
    InterceptedService(c,
                       HeaderInterceptor(self.credential_provider.auth_token, agent_value))

\* LeaderboardClientBuilder<ReadyToBuild>::build(): the result and the
\* connections it tried to open, in order. failing holds the positions of the
\* connection setups that fail: 1..n the data channels, n + 1 the control one.
build(self, failing) ==
    LET agent_value == user_agent("cache")
        n == data_channel_count(self)
        data_channels_result == collect_data_channels(self, 1, n, failing)
    IN  IF ~data_channels_result.ok
        THEN [result |-> [ok |-> FALSE, error |-> data_channels_result.error],
              attempted |-> data_channels_result.attempted]
        ELSE
        LET data_channels == data_channels_result.channels
            control_endpoint == self.credential_provider.control_endpoint
            control_channel ==
                connect_channel_lazily_configurable(
                    control_endpoint,
                    self.configuration.transport_strategy.grpc_configuration,
                    (n + 1) \in failing)
            attempted == data_channels_result.attempted
                           \o <<[endpoint |-> control_endpoint, ok |-> control_channel.ok]>>
        IN  IF ~control_channel.ok
            THEN [result |-> [ok |-> FALSE, error |-> control_channel.error],
                  attempted |-> attempted]
            ELSE
            LET data_clients ==
                    [k \in 1..Len(data_channels) |->
                        data_interceptor(self, data_channels[k], agent_value)]
                control_client ==
                    control_interceptor(self, control_channel.channel, agent_value)
            IN  [result |-> [ok |-> TRUE,
                             value |-> LeaderboardClient(data_clients, control_client,
                                                         self.configuration)],
                 attempted |-> attempted]

(***************************************************************************)
(* LeaderboardClient                                                       *)
(***************************************************************************)
\* A fetch_add that adds two.
fetch_add_twice(old) == (old + 2) % (2 ^ UsizeBits)

\* AtomicUsize::fetch_add(1, Relaxed): the new value of the counter; the
\* addition wraps at the width of usize.
fetch_add(old) == (old + 1) % (2 ^ UsizeBits)

\* The index next_data_client computes from the value fetch_add returned (the
\* old one); the remainder by an empty pool's length panics.
next_index(old, len) ==
    IF len = 0
    THEN [ok |-> FALSE,
          panic |-> "attempt to calculate the remainder with a divisor of zero"]
    ELSE [ok |-> TRUE, index |-> old % len]

(***************************************************************************)
(* Requests.  An operation prepares its request (the target name checked,  *)
(* the timeout of the configuration set as the deadline of the call),      *)
(* takes a connection from the client and sends the request once.          *)
(***************************************************************************)
\* tonic::Request::new: the message, no timeout (an Option, here a sequence
\* of at most one value), no metadata yet.
Request_new(message) == [message |-> message, timeout |-> <<>>, metadata |-> <<>>]

is_cache_name_valid(cache_name) ==
    IF cache_name = ""
    THEN Err(MomentoError("Cache name cannot be empty", "InvalidArgumentError", "None"))
    ELSE Ok(cache_name)

\* prep_request_with_timeout without the check of the name.
prep_request_without_validation(cache_name, timeout, message) ==
    Ok([Request_new(message) EXCEPT !.timeout = <<timeout>>])

prep_request_with_timeout(cache_name, timeout, message) ==
    IF ~is_cache_name_valid(cache_name).ok
    THEN is_cache_name_valid(cache_name)
    ELSE Ok([Request_new(message) EXCEPT !.timeout = <<timeout>>])

prep_leaderboard_request_with_timeout(cache_name, timeout, message) ==
    prep_request_with_timeout(cache_name, timeout, message)

deadline_millis(self) == self.configuration.transport_strategy.grpc_configuration.timeout

control_client(self) == self.control_client

\* #[derive(Clone)]: the fields cloned, each a handle on the same channel.
clone(self) == LeaderboardClient(self.data_clients, self.control_client, self.configuration)

\* next_data_client(&self), given the value of the static counter: what the
\* call selected and the value it leaves in the counter.
next_data_client(self, old) ==
    [selection |-> next_index(old, Len(self.data_clients)), counter |-> fetch_add(old)]

\* What the server, or the transport, answers to one request.
Replies == {"Ok", "NotOk", "DeadlineExceeded", "Unavailable"}

\* One unary call on a connection: the interceptor adds its headers, the
\* request goes out once, and the reply is a response or a status.
unary(connection, request, reply) ==
    [sent |-> [connection |-> connection, request |-> call(connection.interceptor, request)],
     response |-> IF reply \in {"DeadlineExceeded", "Unavailable"}
                  THEN Err(MomentoError("transport error", reply, "tonic::Status"))
                  ELSE Ok([result |-> reply])]

\* What one send did: its result, the selections it made in the pool, and
\* the requests it handed to the transport; counter is the static after it.
Invocation(result, selections, requests, counter) ==
    [result |-> result, selections |-> selections, sent |-> requests, counter |-> counter]

Panic(selection) == [ok |-> FALSE, panic |-> selection.panic]

\* request sent on the next data client: the result is the response of the
\* call, or the error it failed with.
send_on_next_data_client(self, old, request, reply) ==
    LET next == next_data_client(self, old)
    IN  IF ~next.selection.ok
        THEN Invocation(Panic(next.selection), <<next.selection>>, <<>>, next.counter)
        ELSE LET u == unary(self.data_clients[next.selection.index + 1], request, reply)
             IN  Invocation(u.response, <<next.selection>>, <<u.sent>>, next.counter)

\* SetRequest::send taking every response for a success.
SetRequest_send_ignoring_result(self, old, cache_name, ttl_fails, reply) ==
    LET request == prep_request_with_timeout(cache_name, deadline_millis(self), "SetRequest")
        did == send_on_next_data_client(self, old, request.value, reply)
    IN  IF ttl_fails
        THEN Invocation(Err(MomentoError("ttl", "InvalidArgumentError", "None")), <<>>, <<>>, old)
        ELSE IF ~request.ok THEN Invocation(request, <<>>, <<>>, old)
        ELSE IF ~did.result.ok THEN did
        ELSE [did EXCEPT !.result = Ok("SetResponse")]

\* SetRequest::send.  The ttl is expanded while the message is built, before
\* the request is prepared.
SetRequest_send(self, old, cache_name, ttl_fails, reply) ==
    LET request == prep_request_with_timeout(cache_name, deadline_millis(self), "SetRequest")
        did == send_on_next_data_client(self, old, request.value, reply)
    IN  IF ttl_fails
        THEN Invocation(Err(MomentoError("ttl", "InvalidArgumentError", "None")), <<>>, <<>>, old)
        ELSE IF ~request.ok THEN Invocation(request, <<>>, <<>>, old)
        ELSE IF ~did.result.ok THEN did
        ELSE IF did.result.value.result = "Ok" THEN [did EXCEPT !.result = Ok("SetResponse")]
        ELSE [did EXCEPT !.result = Err(MomentoError("Set", "UnknownError", @.value))]

\* GetRankRequest::send.
GetRankRequest_send(self, old, cache_name, reply) ==
    LET request == prep_request_with_timeout(cache_name, deadline_millis(self), "GetRankRequest")
        did == send_on_next_data_client(self, old, request.value, reply)
    IN  IF ~request.ok THEN Invocation(request, <<>>, <<>>, old)
        ELSE IF ~did.result.ok THEN did
        ELSE [did EXCEPT !.result = Ok("GetRankResponse")]

\* FetchByScoreRequest::send, on the Leaderboard of a client.
FetchByScoreRequest_send(self, old, cache_name, reply) ==
    LET request == prep_leaderboard_request_with_timeout(cache_name, deadline_millis(self),
                                                         "GetByScoreRequest")
        did == send_on_next_data_client(self, old, request.value, reply)
    IN  IF ~request.ok THEN Invocation(request, <<>>, <<>>, old)
        ELSE IF ~did.result.ok THEN did
        ELSE [did EXCEPT !.result = Ok("FetchResponse")]

\* The TopicClient a builder with the same configuration and credentials
\* gives: one intercepted connection to the cache endpoint.
TopicClient(self) ==
    [client |-> data_interceptor(
                    self,
                    connect_channel_lazily_configurable(
                        self.credential_provider.cache_endpoint,
                        self.configuration.transport_strategy.grpc_configuration,
                        FALSE).channel,
                    user_agent("topic")),
     configuration |-> self.configuration]

\* PublishRequest::send: on the one connection of the topic client.
PublishRequest_send(topic_client, old, cache_name, reply) ==
    LET request == prep_request_with_timeout(cache_name, deadline_millis(topic_client),
                                             "PublishRequest")
    IN  IF ~request.ok THEN Invocation(request, <<>>, <<>>, old)
        ELSE LET u == unary(topic_client.client, request.value, reply)
             IN  Invocation(IF u.response.ok THEN Ok("TopicPublish") ELSE u.response,
                            <<>>, <<u.sent>>, old)

\* DeleteLeaderboardRequest::send: a plain Request on the control client.
DeleteLeaderboardRequest_send(self, old, cache_name, reply) ==
    IF ~is_cache_name_valid(cache_name).ok
    THEN Invocation(is_cache_name_valid(cache_name), <<>>, <<>>, old)
    ELSE LET request == Request_new("DeleteCacheRequest")
             u == unary(control_client(self), request, reply)
         IN  Invocation(IF u.response.ok THEN Ok("DeleteCacheResponse") ELSE u.response,
                        <<>>, <<u.sent>>, old)

(***************************************************************************)
(* The state machine: each handle is taken through the builder by its      *)
(* caller, and a built client serves next_data_client calls.               *)
(***************************************************************************)
Init ==
    /\ NEXT_DATA_CLIENT_INDEX = 0
    /\ builders = [i \in ClientIds |-> None]
    /\ calls = [i \in ClientIds |-> <<>>]
    /\ built = [i \in ClientIds |-> None]
    /\ attempts = [i \in ClientIds |-> <<>>]
    /\ selected = [i \in ClientIds |-> <<>>]
    /\ environment = [name \in EnvVarNames |-> NotPresent]
    /\ credential = None
    /\ written = None
    /\ invocation = None

Call(method, arg) == [method |-> method, arg |-> arg]

Builder(i) ==
    /\ builders[i] = None
    /\ builders' = [builders EXCEPT ![i] = builder]
    /\ calls' = [calls EXCEPT ![i] = <<Call("builder", None)>>]
    /\ UNCHANGED <<NEXT_DATA_CLIENT_INDEX, built, attempts, selected, credentialVars, invocation>>

SetConfiguration(i, cfg) ==
    /\ builders[i].state = "NeedsConfiguration"
    /\ builders' = [builders EXCEPT ![i] = configuration(builders[i], cfg)]
    /\ calls' = [calls EXCEPT ![i] = Append(calls[i], Call("configuration", cfg))]
    /\ UNCHANGED <<NEXT_DATA_CLIENT_INDEX, built, attempts, selected, credentialVars, invocation>>

SetCredentialProvider(i, cp) ==
    /\ builders[i].state = "NeedsCredentialProvider"
    /\ builders' = [builders EXCEPT ![i] = credential_provider(builders[i], cp)]
    /\ calls' = [calls EXCEPT ![i] = Append(calls[i], Call("credential_provider", cp))]
    /\ UNCHANGED <<NEXT_DATA_CLIENT_INDEX, built, attempts, selected, credentialVars, invocation>>

Overrides(log) == Len(SelectSeq(log, LAMBDA c : c.method = "with_num_connections"))

WithNumConnections(i, n) ==
    /\ builders[i].state = "ReadyToBuild"
    /\ Overrides(calls[i]) < MaxOverrides
    /\ builders' = [builders EXCEPT ![i] = with_num_connections(builders[i], n)]
    /\ calls' = [calls EXCEPT ![i] = Append(calls[i], Call("with_num_connections", n))]
    /\ UNCHANGED <<NEXT_DATA_CLIENT_INDEX, built, attempts, selected, credentialVars, invocation>>

\* build(self) consumes the builder: the caller holds it no longer, and the
\* model keeps its last value beside the result it was built into.
Build(i, failing) ==
    /\ builders[i].state = "ReadyToBuild"
    /\ failing \subseteq 1..(data_channel_count(builders[i]) + 1)
    /\ LET r == build(builders[i], failing)
       IN  /\ built' = [built EXCEPT ![i] = r.result]
           /\ attempts' = [attempts EXCEPT ![i] = r.attempted]
    /\ builders' = [builders EXCEPT ![i].state = "Consumed"]
    /\ calls' = [calls EXCEPT ![i] = <<>>]
    /\ UNCHANGED <<NEXT_DATA_CLIENT_INDEX, selected, credentialVars, invocation>>

TotalCalls == Len(selected["A"]) + Len(selected["B"])

\* next_data_client(&self): one atomic fetch_add on the static, then the
\* remainder by the pool's length and a clone of the member at that index.
NextDataClient(i) ==
    /\ built[i] # None
    /\ built[i].ok
    /\ TotalCalls < MaxCalls
    /\ LET old == NEXT_DATA_CLIENT_INDEX
           len == Len(built[i].value.data_clients)
       IN  /\ NEXT_DATA_CLIENT_INDEX' = fetch_add(old)
           /\ selected' = [selected EXCEPT ![i] = Append(selected[i], next_index(old, len))]
    /\ UNCHANGED <<builders, calls, built, attempts, credentialVars, invocation>>

Next ==
    \E i \in ClientIds :
        \/ Builder(i)
        \/ \E cfg \in Configurations : SetConfiguration(i, cfg)
        \/ \E cp \in Providers : SetCredentialProvider(i, cp)
        \/ \E n \in NumConnections : WithNumConnections(i, n)
        \/ \E failing \in SUBSET (1..(MaxChannels + 1)) : Build(i, failing)
        \/ NextDataClient(i)

Spec == Init /\ [][Next]_vars

(***************************************************************************)
(* The credential provider: the process sets and removes environment       *)
(* variables, and a caller makes a provider from a string or from a        *)
(* variable and may then move the provider it got to another base host.    *)
(***************************************************************************)
SetVar(name, value) ==
    /\ environment' = [environment EXCEPT ![name] = value]
    /\ UNCHANGED <<clientVars, credential, written, invocation>>

RemoveVar(name) ==
    /\ environment' = [environment EXCEPT ![name] = NotPresent]
    /\ UNCHANGED <<clientVars, credential, written, invocation>>

FromString(auth_token) ==
    LET r == from_string(auth_token)
    IN  /\ credential' = [call |-> "from_string", auth_token |-> auth_token,
                          result |-> r.result, entered |-> r.entered]
        /\ UNCHANGED <<clientVars, environment, written, invocation>>

FromEnvVar(env_var_name) ==
    LET r == from_env_var(environment, env_var_name)
    IN  /\ credential' = [call |-> "from_env_var", env_var_name |-> env_var_name,
                          value |-> environment[env_var_name],
                          result |-> r.result, entered |-> r.entered]
        /\ UNCHANGED <<clientVars, environment, written, invocation>>

BaseEndpoint(endpoint) ==
    /\ credential # None
    /\ credential.result.ok
    /\ credential' = [call |-> "base_endpoint", self |-> credential.result.value,
                      endpoint |-> endpoint,
                      result |-> Ok(base_endpoint(credential.result.value, endpoint)),
                      entered |-> <<>>]
    /\ UNCHANGED <<clientVars, environment, written, invocation>>

NextCredential ==
    \/ \E name \in EnvVarNames : \E value \in EnvValues : SetVar(name, value)
    \/ \E name \in EnvVarNames : RemoveVar(name)
    \/ \E auth_token \in Tokens : FromString(auth_token)
    \/ \E name \in EnvVarNames : FromEnvVar(name)
    \/ \E endpoint \in BaseEndpoints : BaseEndpoint(endpoint)

SpecCredential == Init /\ [][NextCredential]_vars

(***************************************************************************)
(* Diagnostic output: a caller that holds a provider, made from a string   *)
(* and perhaps moved to another base host, writes it with Display or Debug.*)
(***************************************************************************)
InitFormat ==
    /\ NEXT_DATA_CLIENT_INDEX = 0
    /\ builders = [i \in ClientIds |-> None]
    /\ calls = [i \in ClientIds |-> <<>>]
    /\ built = [i \in ClientIds |-> None]
    /\ attempts = [i \in ClientIds |-> <<>>]
    /\ selected = [i \in ClientIds |-> <<>>]
    /\ environment = [name \in EnvVarNames |-> NotPresent]
    /\ \E auth_token \in ValidTokens :
          LET r == from_string(auth_token)
          IN  credential = [call |-> "from_string", auth_token |-> auth_token,
                            result |-> r.result, entered |-> r.entered]
    /\ written = None
    /\ invocation = None

Display ==
    /\ credential.result.ok
    /\ written' = [trait |-> "Display", self |-> credential.result.value,
                   output |-> Display_fmt(credential.result.value)]
    /\ UNCHANGED <<clientVars, environment, credential, invocation>>

Debug ==
    /\ credential.result.ok
    /\ written' = [trait |-> "Debug", self |-> credential.result.value,
                   output |-> Debug_fmt(credential.result.value)]
    /\ UNCHANGED <<clientVars, environment, credential, invocation>>

NextFormat ==
    \/ \E endpoint \in BaseEndpoints : BaseEndpoint(endpoint)
    \/ Display
    \/ Debug

SpecFormat == InitFormat /\ [][NextFormat]_vars

(***************************************************************************)
(* Operations on built clients.  The handles hold clients built without a  *)
(* failure from one configuration and provider; callers send requests on   *)
(* them, with a target name that is valid or empty, and the transport      *)
(* answers each request that reaches it.                                   *)
(***************************************************************************)
CacheNames == {"cache", ""}

InitSend ==
    /\ NEXT_DATA_CLIENT_INDEX = 0
    /\ \E cfg \in Configurations : \E cp \in Providers :
          /\ builders = [i \in ClientIds |->
                            [ReadyToBuild(cfg, cp) EXCEPT !.state = "Consumed"]]
          /\ built = [i \in ClientIds |-> build(ReadyToBuild(cfg, cp), {}).result]
          /\ attempts = [i \in ClientIds |-> build(ReadyToBuild(cfg, cp), {}).attempted]
    /\ calls = [i \in ClientIds |-> <<>>]
    /\ selected = [i \in ClientIds |-> <<>>]
    /\ environment = [name \in EnvVarNames |-> NotPresent]
    /\ credential = None
    /\ written = None
    /\ invocation = None

\* The caller's send returned: what it did is kept, the static counter and
\* the log of selections are as the send left them.
Sent(i, operation, cache_name, reply, did) ==
    /\ TotalCalls < MaxSends
    /\ invocation' = [client |-> i, operation |-> operation, cache_name |-> cache_name,
                      reply |-> reply,
                      result |-> did.result, selections |-> did.selections, sent |-> did.sent]
    /\ NEXT_DATA_CLIENT_INDEX' = did.counter
    /\ selected' = [selected EXCEPT ![i] = selected[i] \o did.selections]
    /\ UNCHANGED <<builders, calls, built, attempts, credentialVars>>

Set(i, cache_name, ttl_fails, reply) ==
    Sent(i, "set", cache_name, reply,
         SetRequest_send(built[i].value, NEXT_DATA_CLIENT_INDEX, cache_name, ttl_fails, reply))

Publish(i, cache_name, reply) ==
    Sent(i, "publish", cache_name, reply,
         PublishRequest_send(TopicClient(builders[i]), NEXT_DATA_CLIENT_INDEX, cache_name, reply))

GetRank(i, cache_name, reply) ==
    Sent(i, "get_rank", cache_name, reply,
         GetRankRequest_send(built[i].value, NEXT_DATA_CLIENT_INDEX, cache_name, reply))

FetchByScore(i, cache_name, reply) ==
    Sent(i, "fetch_by_score", cache_name, reply,
         FetchByScoreRequest_send(built[i].value, NEXT_DATA_CLIENT_INDEX, cache_name, reply))

DeleteLeaderboard(i, cache_name, reply) ==
    Sent(i, "delete_leaderboard", cache_name, reply,
         DeleteLeaderboardRequest_send(built[i].value, NEXT_DATA_CLIENT_INDEX, cache_name, reply))

NextSend ==
    \E i \in ClientIds : \E cache_name \in CacheNames : \E reply \in Replies :
        \/ \E ttl_fails \in BOOLEAN : Set(i, cache_name, ttl_fails, reply)
        \/ Publish(i, cache_name, reply)
        \/ GetRank(i, cache_name, reply)
        \/ FetchByScore(i, cache_name, reply)
        \/ DeleteLeaderboard(i, cache_name, reply)

SpecSend == InitSend /\ [][NextSend]_vars

(***************************************************************************)
(* A built client in use.  Handle A holds a client built without a         *)
(* failure; callers take connections and the deadline from the clients     *)
(* there are, and clone a client into the handle that is free.             *)
(***************************************************************************)
InitClient ==
    /\ NEXT_DATA_CLIENT_INDEX = 0
    /\ \E cfg \in Configurations : \E cp \in Providers :
          /\ builders = [i \in ClientIds |->
                            IF i = "A"
                            THEN [ReadyToBuild(cfg, cp) EXCEPT !.state = "Consumed"]
                            ELSE None]
          /\ built = [i \in ClientIds |->
                         IF i = "A" THEN build(ReadyToBuild(cfg, cp), {}).result ELSE None]
          /\ attempts = [i \in ClientIds |->
                            IF i = "A" THEN build(ReadyToBuild(cfg, cp), {}).attempted ELSE <<>>]
    /\ calls = [i \in ClientIds |-> <<>>]
    /\ selected = [i \in ClientIds |-> <<>>]
    /\ environment = [name \in EnvVarNames |-> NotPresent]
    /\ credential = None
    /\ written = None
    /\ invocation = None

ControlClient(i) ==
    /\ built[i] # None
    /\ built[i].ok
    /\ invocation' = [client |-> i, operation |-> "control_client",
                      result |-> Ok(control_client(built[i].value))]
    /\ UNCHANGED <<clientVars, credentialVars>>

DeadlineMillis(i) ==
    /\ built[i] # None
    /\ built[i].ok
    /\ invocation' = [client |-> i, operation |-> "deadline_millis",
                      result |-> Ok(deadline_millis(built[i].value))]
    /\ UNCHANGED <<clientVars, credentialVars>>

Clone(i, j) ==
    /\ built[i] # None
    /\ built[i].ok
    /\ built[j] = None
    /\ built' = [built EXCEPT ![j] = Ok(clone(built[i].value))]
    /\ invocation' = [client |-> i, operation |-> "clone", result |-> Ok(clone(built[i].value))]
    /\ UNCHANGED <<NEXT_DATA_CLIENT_INDEX, builders, calls, attempts, selected, credentialVars>>

NextClient ==
    \E i \in ClientIds :
        \/ NextDataClient(i)
        \/ ControlClient(i)
        \/ DeadlineMillis(i)
        \/ \E j \in ClientIds : Clone(i, j)

SpecClient == InitClient /\ [][NextClient]_vars

(***************************************************************************)
(* The counter at any value.  The static outlives the clients, so clients  *)
(* built now find it where the earlier calls of the process left it; the   *)
(* pools here have one connection or more.                                 *)
(***************************************************************************)
PoolConfigurations ==
    {Configuration(TransportStrategy(GrpcConfiguration(n, 5000))) : n \in 1..(MaxChannels + 1)}

InitWrap ==
    /\ NEXT_DATA_CLIENT_INDEX \in 0..(2 ^ UsizeBits - 1)
    /\ \E cfg \in PoolConfigurations : \E cp \in Providers :
          /\ builders = [i \in ClientIds |->
                            [ReadyToBuild(cfg, cp) EXCEPT !.state = "Consumed"]]
          /\ built = [i \in ClientIds |-> build(ReadyToBuild(cfg, cp), {}).result]
          /\ attempts = [i \in ClientIds |-> build(ReadyToBuild(cfg, cp), {}).attempted]
    /\ calls = [i \in ClientIds |-> <<>>]
    /\ selected = [i \in ClientIds |-> <<>>]
    /\ environment = [name \in EnvVarNames |-> NotPresent]
    /\ credential = None
    /\ written = None
    /\ invocation = None

NextWrap == \E i \in ClientIds : NextDataClient(i)

SpecWrap == InitWrap /\ [][NextWrap]_vars

(***************************************************************************)
(* Reading the state.                                                      *)
(***************************************************************************)
IsClient(i) == built[i] # None /\ built[i].ok

BuildFailed(i) == built[i] # None /\ ~built[i].ok

PoolLen(i) == Len(built[i].value.data_clients)

\* The pool index the next call of next_data_client on client i selects.
UpcomingIndex(i) == next_index(NEXT_DATA_CLIENT_INDEX, PoolLen(i))

\* No call so far hit an empty pool.
NoPanic == \A i \in ClientIds : \A k \in 1..Len(selected[i]) : selected[i][k].ok

\* How often client i selected pool index x.
TimesSelected(i, x) ==
    Cardinality({k \in 1..Len(selected[i]) : selected[i][k] = [ok |-> TRUE, index |-> x]})

(***************************************************************************)
(* C1. On a client whose pool has N >= 1 connections, consecutive calls of *)
(* next_data_client walk the pool in cyclic index order: each call selects *)
(* the index after the one the client's previous call selected, so any N   *)
(* consecutive calls select each index exactly once.  (Stated for the     *)
(* runs in which no call hit an empty pool.)                               *)
(***************************************************************************)
C1_RoundRobinPerClient ==
    \A i \in ClientIds :
        (NoPanic /\ IsClient(i) /\ PoolLen(i) >= 1) =>
            \A k \in 1..(Len(selected[i]) - 1) :
                selected[i][k + 1].index = (selected[i][k].index + 1) % PoolLen(i)

(***************************************************************************)
(* C2. The counter is scoped to the client: a call of next_data_client on  *)
(* one client never changes the index the next call on another client      *)
(* selects.  (Stated for the runs in which no call hit an empty pool.)     *)
(***************************************************************************)
C2_CounterScopedToClient ==
    [][\A a, b \in ClientIds :
          (/\ a # b
           /\ NoPanic'
           /\ IsClient(b)
           /\ PoolLen(b) >= 1
           /\ Len(selected'[a]) = Len(selected[a]) + 1)
          => UpcomingIndex(b)' = UpcomingIndex(b)]_vars

(***************************************************************************)
(* C3. The calls on a client are spread evenly over its pool, whatever     *)
(* else runs in the process: after any number of calls, the numbers of     *)
(* times any two pool members were selected differ by at most one; and no  *)
(* increment of the counter is lost.  (Stated for the runs in which no     *)
(* call hit an empty pool.)                                                *)
(***************************************************************************)
C3_EvenDistribution ==
    /\ NEXT_DATA_CLIENT_INDEX = TotalCalls % (2 ^ UsizeBits)
    /\ \A i \in ClientIds :
          (NoPanic /\ IsClient(i) /\ PoolLen(i) >= 1) =>
              \A x, y \in 0..(PoolLen(i) - 1) :
                  TimesSelected(i, x) - TimesSelected(i, y) <= 1

(***************************************************************************)
(* C4. build() fails atomically: it returns a client exactly when no       *)
(* connection setup it tried failed; a failed setup is the last thing it   *)
(* tries (so a failed data connection leaves the control connection        *)
(* untried), and the result is then a ChannelConnectError that holds no    *)
(* client and no pool.                                                     *)
(***************************************************************************)
C4_BuildFailsAtomically ==
    \A i \in ClientIds :
        built[i] # None =>
            LET tried == attempts[i]
                failed == {k \in 1..Len(tried) : ~tried[k].ok}
            IN  /\ built[i].ok <=> failed = {}
                /\ \A k \in failed : k = Len(tried)
                /\ ~built[i].ok =>
                      /\ built[i].error = "ChannelConnectError"
                      /\ DOMAIN built[i] = {"ok", "error"}
                      /\ tried[Len(tried)].endpoint = builders[i].credential_provider.cache_endpoint
                            => \A k \in 1..Len(tried) :
                                  tried[k].endpoint # builders[i].credential_provider.control_endpoint

\* build() gave up at the second data connection.
C4_Witness ==
    \E i \in ClientIds :
        /\ BuildFailed(i)
        /\ Len(attempts[i]) = 2
        /\ attempts[i][1].ok
        /\ attempts[i][2].endpoint = builders[i].credential_provider.cache_endpoint

(***************************************************************************)
(* C5. A client that build() returns holds exactly num_channels data       *)
(* connections, each opened to the provider's cache endpoint, and one      *)
(* control connection opened to the control endpoint; its configuration is *)
(* the builder's, which is the configuration the builder was given with    *)
(* the last channel-count override applied.                                *)
(***************************************************************************)
\* The configuration a builder was given, from the calls made on it.
GivenConfiguration(log) ==
    LET overrides == SelectSeq(log, LAMBDA c : c.method = "with_num_connections")
        given == log[2].arg.transport_strategy.grpc_configuration
    IN  IF overrides = <<>>
        THEN log[2].arg
        ELSE [transport_strategy |->
                [grpc_configuration |->
                    [num_channels |-> overrides[Len(overrides)].arg,
                     timeout |-> given.timeout]]]

C5_BuiltClientShape ==
    \A i \in ClientIds :
        /\ builders[i].state = "ReadyToBuild" =>
              builders[i].configuration = GivenConfiguration(calls[i])
        /\ IsClient(i) =>
              LET client == built[i].value
                  self == builders[i]
                  n == self.configuration.transport_strategy.grpc_configuration.num_channels
              IN  /\ Len(client.data_clients) = n
                  /\ \A k \in 1..Len(client.data_clients) :
                        client.data_clients[k].channel.endpoint
                            = self.credential_provider.cache_endpoint
                  /\ client.control_client.channel.endpoint
                        = self.credential_provider.control_endpoint
                  /\ Len(attempts[i]) = n + 1
                  /\ client.configuration = self.configuration

\* A client built with a pool of two after an override of the channel count.
C5_Witness ==
    \E i \in ClientIds :
        /\ IsClient(i)
        /\ PoolLen(i) = 2
        /\ built[i].value.configuration.transport_strategy.grpc_configuration.timeout = 15000

(***************************************************************************)
(* C6. Every connection of a built client, each member of the data pool    *)
(* and the control connection, is wrapped with an interceptor that holds   *)
(* the provider's auth token and the one client-identification string, so  *)
(* a call sent over any of them carries both headers.                      *)
(***************************************************************************)
Connections(client) ==
    {client.data_clients[k] : k \in 1..Len(client.data_clients)} \cup {client.control_client}

C6_EveryConnectionIntercepted ==
    \A i \in ClientIds :
        IsClient(i) =>
            \A c \in Connections(built[i].value) :
                /\ "interceptor" \in DOMAIN c
                /\ c.interceptor.auth_token = builders[i].credential_provider.auth_token
                /\ c.interceptor.agent = built[i].value.control_client.interceptor.agent
                /\ c.interceptor.agent # ""
                /\ call(c.interceptor, [metadata |-> <<>>]).metadata
                      = <<[key |-> "authorization",
                           value |-> builders[i].credential_provider.auth_token],
                          [key |-> "agent", value |-> c.interceptor.agent]>>

\* A client with two pooled connections and its control connection.
C6_Witness ==
    \E i \in ClientIds :
        /\ IsClient(i)
        /\ PoolLen(i) = 2
        /\ built[i].value.data_clients[2].interceptor.auth_token = "key2"

(***************************************************************************)
(* C7. The builder is staged: the methods called on a builder are, in      *)
(* order, builder(), configuration, credential_provider and then only      *)
(* with_num_connections; a builder that build() can be called on           *)
(* (ReadyToBuild) has been given both a configuration and a credential     *)
(* provider, and holds them.                                               *)
(***************************************************************************)
Staged(log) ==
    /\ Len(log) >= 1
    /\ \A k \in 1..Len(log) :
          log[k].method = CASE k = 1 -> "builder"
                            [] k = 2 -> "configuration"
                            [] k = 3 -> "credential_provider"
                            [] OTHER -> "with_num_connections"

C7_BuilderIsStaged ==
    \A i \in ClientIds :
        /\ builders[i].state \in {"NeedsConfiguration", "NeedsCredentialProvider",
                                  "ReadyToBuild"} => Staged(calls[i])
        /\ builders[i].state = "ReadyToBuild" =>
              /\ Len(calls[i]) >= 3
              /\ calls[i][2].arg \in Configurations
              /\ calls[i][3].arg \in Providers
              /\ builders[i].credential_provider = calls[i][3].arg
              /\ builders[i].configuration.transport_strategy.grpc_configuration.timeout
                    = calls[i][2].arg.transport_strategy.grpc_configuration.timeout
        /\ built[i] # None =>
              /\ builders[i].state = "Consumed"
              /\ builders[i].configuration \in
                    {[transport_strategy |->
                        [grpc_configuration |-> [num_channels |-> n, timeout |-> t]]] :
                        n \in 0..MaxChannels, t \in {5000, 15000}}
              /\ builders[i].credential_provider \in Providers

\* A builder that is ready to build after one override of the channel count.
C7_Witness ==
    \E i \in ClientIds :
        /\ builders[i].state = "ReadyToBuild"
        /\ Len(calls[i]) = 4

(***************************************************************************)
(* The credential provider's claims, read off the last call.               *)
(***************************************************************************)
\* Every well-formed token, with the fields it was written from.
ValidCases ==
    {[api_key |-> Concat(k, 1), endpoint |-> Concat(e, 1), token |-> ValidToken(k, e, l)] :
        k \in ApiKeys, e \in Endpoints, l \in Layouts}

FromStringOf(token) ==
    /\ credential # None
    /\ credential.call = "from_string"
    /\ credential.auth_token = token

FromEnvVarHolding(value) ==
    /\ credential # None
    /\ credential.call = "from_env_var"
    /\ credential.value = value

\* C8: for every valid token (URL-safe base64 of a JSON object with the
\* string fields api_key and endpoint), from_string returns a provider whose
\* control, cache and token endpoints are exactly "https://control." +
\* endpoint, "https://cache." + endpoint and "https://token." + endpoint and
\* whose secret is exactly api_key; from_env_var on a variable holding the
\* token returns the same provider.
C8_ValidTokenGivesProvider ==
    \A c \in ValidCases :
        (FromStringOf(c.token) \/ FromEnvVarHolding(Present(c.token))) =>
            credential.result =
                Ok([auth_token |-> c.api_key,
                    control_endpoint |-> "https://control." \o c.endpoint,
                    cache_endpoint |-> "https://cache." \o c.endpoint,
                    token_endpoint |-> "https://token." \o c.endpoint])

C8_Witness ==
    /\ FromEnvVarHolding(Present(ValidToken(<<"k", "\"", "\\", "2">>, <<"e", ".", "i", "o">>,
                                            "endpoint first")))
    /\ credential.result.ok
    /\ credential.result.value.auth_token = "k\"\\2"
    /\ credential.result.value.cache_endpoint = "https://cache.e.io"

\* C9: base_endpoint(H) applied to any provider returns a provider whose
\* endpoints are https://control.H, https://cache.H and https://token.H,
\* whatever the endpoints were, with the secret unchanged; applying it twice
\* gives what applying it once gives, and base_endpoint(H2) after
\* base_endpoint(H) gives what base_endpoint(H2) alone gives.
C9_BaseEndpointDependsOnHostOnly ==
    (credential # None /\ credential.call = "base_endpoint") =>
        LET self == credential.self
            H == credential.endpoint
            moved == credential.result.value
        IN  /\ moved = [auth_token |-> self.auth_token,
                        control_endpoint |-> "https://control." \o H,
                        cache_endpoint |-> "https://cache." \o H,
                        token_endpoint |-> "https://token." \o H]
            /\ base_endpoint(moved, H) = moved
            /\ \A H2 \in BaseEndpoints : base_endpoint(moved, H2) = base_endpoint(self, H2)

C9_Witness ==
    /\ credential # None
    /\ credential.call = "base_endpoint"
    /\ credential.self.token_endpoint = "https://token.foo.com"
    /\ credential.endpoint = "bar.io"
    /\ credential.result.value.token_endpoint = "https://token.bar.io"
    /\ credential.result.value.auth_token = "..."

\* C10: from_string("") fails with InvalidArgument ("Auth token string cannot
\* be empty") and from_env_var(name) with name unset fails with
\* InvalidArgument ("Env var <name> must be set"); in both cases the result
\* holds no provider and no decoding function was entered.
C10_EmptyAndUnsetFailBeforeDecoding ==
    /\ FromStringOf(<<>>) =>
        /\ ~credential.result.ok
        /\ credential.result.error.message = "Auth token string cannot be empty"
        /\ credential.result.error.error_code = "InvalidArgumentError"
        /\ credential.entered = <<>>
    /\ FromEnvVarHolding(NotPresent) =>
        /\ ~credential.result.ok
        /\ credential.result.error.message =
               "Env var " \o credential.env_var_name \o " must be set"
        /\ credential.result.error.error_code = "InvalidArgumentError"
        /\ credential.entered = <<>>

C10_Witness ==
    /\ FromEnvVarHolding(NotPresent)
    /\ credential.env_var_name = "TEST_ENV_VAR_CREDENTIAL_PROVIDER_NOT_SET"
    /\ environment["TEST_ENV_VAR_CREDENTIAL_PROVIDER"] = Present(<<>>)
    /\ credential.result.error.message =
           "Env var TEST_ENV_VAR_CREDENTIAL_PROVIDER_NOT_SET must be set"

\* The error every unparseable token is reported with.
IsTokenParsingError(result) ==
    /\ ~result.ok
    /\ result.error.message =
           "Could not parse token. Please ensure a valid token was entered correctly."
    /\ result.error.error_code = "InvalidArgumentError"

\* C11: every token that is not valid URL-safe base64, or whose decoded
\* bytes are not a JSON object with both string fields api_key and endpoint,
\* makes from_string and from_env_var return InvalidArgument "Could not parse
\* token..." and never a provider; an environment variable set to the empty
\* string is reported by from_env_var as such a parse failure.
C11_MalformedTokenIsParsingError ==
    \A token \in Tokens \ ValidTokens :
        ((token # <<>> /\ FromStringOf(token)) \/ FromEnvVarHolding(Present(token))) =>
            IsTokenParsingError(credential.result)

\* Secrets a provider could hold instead of its own.
Secrets == {Concat(k, 1) : k \in ApiKeys} \cup {"another secret"}

\* C12: the auth secret never appears in diagnostic output: two providers
\* that differ only in auth_token have the same Display output and the same
\* Debug output, the secret field being written as the placeholder
\* <redacted>, also after base_endpoint has been applied.
C12_SecretIsRedacted ==
    written # None =>
        LET self == written.self
            fmt(p) == IF written.trait = "Display" THEN Display_fmt(p) ELSE Debug_fmt(p)
        IN  /\ \A secret \in Secrets :
                   fmt([self EXCEPT !.auth_token = secret]) = written.output
            /\ \A j \in 1..Len(written.output) :
                   written.output[j] \notin {self.auth_token, str_Debug(self.auth_token)}
            /\ written.trait = "Display" =>
                   written.output[1] =
                       "CredentialProvider { auth_token: <redacted>, cache_endpoint: "
            /\ written.trait = "Debug" =>
                   /\ written.output[3] = "auth_token"
                   /\ written.output[5] = "\"<redacted>\""

C12_Witness ==
    /\ written # None
    /\ written.trait = "Debug"
    /\ written.self.auth_token = "k\"\\2"
    /\ written.self.cache_endpoint = "https://cache.foo.com"
    /\ written.output[9] = "\"https://cache.foo.com\""

(***************************************************************************)
(* The operations' claims, read off the last send.                         *)
(***************************************************************************)
\* The timeout of the configuration the client of the last send was built with.
ConfiguredTimeout ==
    built[invocation.client].value.configuration.transport_strategy.grpc_configuration.timeout

\* C13: every operation (set, publish, get-rank, fetch-by-score,
\* delete-leaderboard) hands the transport only calls whose target name was
\* validated and which carry a deadline computed from the timeout of the
\* client's configuration; no operation sends a call without a deadline.
C13_EveryCallCarriesDeadline ==
    invocation # None =>
        \A k \in 1..Len(invocation.sent) :
            /\ invocation.cache_name # ""
            /\ invocation.sent[k].request.timeout = <<ConfiguredTimeout>>

\* C14: validation precedes any network attempt: when the target name of an
\* operation is invalid, send returns InvalidArgument without selecting a
\* pooled connection and without sending anything, and leaves the
\* round-robin counter and the pools unchanged.
C14_ValidationPrecedesNetwork ==
    [][(invocation' # None /\ invocation'.cache_name = "") =>
          /\ ~invocation'.result.ok
          /\ "error" \in DOMAIN invocation'.result
          /\ invocation'.result.error.error_code = "InvalidArgumentError"
          /\ invocation'.selections = <<>>
          /\ invocation'.sent = <<>>
          /\ NEXT_DATA_CLIENT_INDEX' = NEXT_DATA_CLIENT_INDEX
          /\ selected' = selected
          /\ built' = built]_vars

C14_Witness ==
    /\ invocation # None
    /\ invocation.operation = "get_rank"
    /\ invocation.cache_name = ""
    /\ invocation.result.error.error_code = "InvalidArgumentError"
    /\ NEXT_DATA_CLIENT_INDEX = 1
    /\ Len(selected[invocation.client]) = 1
    /\ PoolLen(invocation.client) = 2

\* C15: the core never retries or suppresses a failed call: one send selects
\* at most one connection and hands the transport at most one request; when
\* that request fails (deadline exceeded included) the operation returns an
\* error; and a Set response whose result code is not Ok is returned as an
\* UnknownError, not as success.
C15_NoRetryNoSuppression ==
    invocation # None =>
        /\ Len(invocation.selections) <= 1
        /\ Len(invocation.sent) <= 1
        /\ (Len(invocation.sent) = 1 /\ invocation.reply \in {"DeadlineExceeded", "Unavailable"})
              => (~invocation.result.ok /\ invocation.result.error.error_code = invocation.reply)
        /\ (Len(invocation.sent) = 1 /\ invocation.operation = "set"
                /\ invocation.reply = "NotOk")
              => (~invocation.result.ok /\ invocation.result.error.error_code = "UnknownError")

C15_Witness ==
    /\ invocation # None
    /\ invocation.operation = "set"
    /\ invocation.reply = "NotOk"
    /\ Len(invocation.sent) = 1
    /\ invocation.selections = <<[ok |-> TRUE, index |-> 1]>>
    /\ invocation.result.error.error_code = "UnknownError"

(***************************************************************************)
(* C16. After build() a client is immutable except for the round-robin     *)
(* counter: whatever the order of next_data_client, control_client,        *)
(* deadline_millis and clone, the pool (length and members), the control   *)
(* connection and the configuration of every client stay as built, no      *)
(* connection is established (a clone holds the handles of its original),  *)
(* and each next_data_client call changes the counter by exactly one       *)
(* increment.                                                              *)
(***************************************************************************)
C16_ImmutableExceptCounter ==
    [][/\ \A i \in ClientIds : IsClient(i) => built'[i] = built[i]
       /\ \A j \in ClientIds :
              (built[j] = None /\ built'[j] # None) =>
                  \E i \in ClientIds : IsClient(i) /\ built'[j] = built[i]
       /\ attempts' = attempts
       /\ \/ /\ selected' = selected
             /\ NEXT_DATA_CLIENT_INDEX' = NEXT_DATA_CLIENT_INDEX
          \/ /\ \E i \in ClientIds :
                    /\ Len(selected'[i]) = Len(selected[i]) + 1
                    /\ selected' = [selected EXCEPT
                                       ![i] = Append(selected[i], selected'[i][Len(selected'[i])])]
             /\ NEXT_DATA_CLIENT_INDEX' = (NEXT_DATA_CLIENT_INDEX + 1) % (2 ^ UsizeBits)]_vars

C16_Witness ==
    /\ IsClient("A")
    /\ built["B"] = built["A"]
    /\ attempts["B"] = <<>>
    /\ PoolLen("A") = 2
    /\ Len(selected["A"]) = 1
    /\ Len(selected["B"]) = 2
    /\ NEXT_DATA_CLIENT_INDEX = 3
    /\ invocation # None
    /\ invocation.operation = "control_client"
    /\ invocation.result.value = built["B"].value.control_client

(***************************************************************************)
(* C17. with_num_connections(n) changes only the channel count: the        *)
(* builder it returns has num_channels = n, with the timeout, every other  *)
(* setting of the configuration and the credential provider as they were;  *)
(* of several calls the last value wins; and the per-call deadline of the  *)
(* client built is the one it has without the override.                    *)
(***************************************************************************)
C17_OverrideChangesOnlyChannelCount ==
    \A i \in ClientIds :
        builders[i].state = "ReadyToBuild" =>
            LET given == calls[i][2].arg
                overrides == SelectSeq(calls[i], LAMBDA c : c.method = "with_num_connections")
                now == builders[i].configuration.transport_strategy.grpc_configuration
                before == given.transport_strategy.grpc_configuration
            IN  /\ builders[i].credential_provider = calls[i][3].arg
                /\ now.timeout = before.timeout
                /\ now = [before EXCEPT
                             !.num_channels = IF overrides = <<>> THEN @
                                              ELSE overrides[Len(overrides)].arg]
                /\ DOMAIN builders[i].configuration = DOMAIN given
                /\ DOMAIN builders[i].configuration.transport_strategy =
                       DOMAIN given.transport_strategy
                /\ \A n \in NumConnections :
                       deadline_millis(build(with_num_connections(builders[i], n), {}).result.value)
                           = before.timeout

C17_Witness ==
    \E i \in ClientIds :
        /\ builders[i].state = "ReadyToBuild"
        /\ Len(calls[i]) = 5
        /\ calls[i][2].arg.transport_strategy.grpc_configuration = GrpcConfiguration(1, 15000)
        /\ calls[i][4] = Call("with_num_connections", 0)
        /\ calls[i][5] = Call("with_num_connections", MaxChannels)
        /\ builders[i].configuration.transport_strategy.grpc_configuration
               = GrpcConfiguration(MaxChannels, 15000)

(***************************************************************************)
(* C18. The counter wraps modulo 2^w without disturbing selection: every   *)
(* selected index is in [0, N), and across the step in which the counter   *)
(* goes from 2^w - 1 to 0 the calls continue the round-robin order, no     *)
(* pool member skipped or repeated, for every pool size N >= 1.  (Stated   *)
(* for the runs in which one client alone makes the calls.)                *)
(***************************************************************************)
C18_WrapKeepsRoundRobin ==
    \A i \in ClientIds :
        (IsClient(i) /\ PoolLen(i) >= 1 /\ TotalCalls = Len(selected[i])) =>
            /\ \A k \in 1..Len(selected[i]) : selected[i][k].index \in 0..(PoolLen(i) - 1)
            /\ \A k \in 2..Len(selected[i]) :
                   selected[i][k].index = (selected[i][k - 1].index + 1) % PoolLen(i)

(***************************************************************************)
(* C19. Every client build() returns can serve calls: for any channel      *)
(* count the builder accepts (from the configuration or from               *)
(* with_num_connections(n), n = 0 included), either build() fails or every *)
(* later call of next_data_client returns a member of the pool;            *)
(* next_data_client never divides by a pool length of zero nor indexes     *)
(* outside the pool.                                                       *)
(***************************************************************************)
C19_BuiltClientServesCalls ==
    \A i \in ClientIds :
        IsClient(i) =>
            /\ UpcomingIndex(i).ok
            /\ \A k \in 1..Len(selected[i]) :
                   /\ selected[i][k].ok
                   /\ selected[i][k].index \in 0..(PoolLen(i) - 1)

====
